---- MODULE Spec2Model ----
(***************************************************************************)
(* FaceCraft: four stand-alone face-detection demonstration scripts.       *)
(*   script 1  01-detect_face_by_edge.py      synthetic image, contours    *)
(*   script 2  02-detect_face_by_haar.py      one Haar cascade             *)
(*   script 3  03-detect_features_by_haar.py  face cascade, then eye       *)
(*                                            cascade per face region      *)
(*   script 4  04-detect_face_by_mediapipe.py face-mesh landmarks          *)
(* One run of one script is one behaviour.  The file system, the image     *)
(* decoder, the detectors and the user are the environment: each of their  *)
(* answers is chosen when the script asks for it.                          *)
(*                                                                         *)
(* Images are ImgSize x ImgSize rasters, stored row by row.  A pixel holds  *)
(* k >= 0 (the photo's own content at position k) or the negative code of  *)
(* the colour an annotation painted over it.  Contour areas are carried in *)
(* half-pixel units, the granularity of cv2.contourArea.                   *)
(***************************************************************************)
EXTENDS Integers, Sequences, FiniteSets, TLC

\* ------------------------------------------------------------ bounds
\* side of the (square) raster, in pixels
ImgSize == 4
\* smallest face the face cascade reports: minSize=(30, 30), scaled down
MinFaceSize == 3
\* smallest eye the eye cascade reports: its 20 x 20 window, scaled down
MinEyeSize == 3
\* longest list a face detector returns
MaxFaces == 2
\* longest list the eye cascade returns for one face
MaxEyes == 1
\* longest list findContours returns
MaxContours == 2

\* ------------------------------------------------------- program constants
AreaThreshold == 1000
Thickness == 2

Scripts == 1..4
PhotoScripts == {2, 3, 4}

\* ------------------------------------------------------------ rasters
Pixels == 0..(ImgSize * ImgSize - 1)

\* column and row of a pixel
Col(p) == p % ImgSize

Row(p) == p \div ImgSize

Box(x, y, w, h) == [x |-> x, y |-> y, w |-> w, h |-> h]

WholeImage == Box(0, 0, ImgSize, ImgSize)

\* the pixels of an array region: numpy's arr[y:y+h, x:x+w]
PixelsOf(b) == {p \in Pixels : /\ b.x <= Col(p) /\ Col(p) < b.x + b.w
                               /\ b.y <= Row(p) /\ Row(p) < b.y + b.h}

\* every box of at least min x min that lies inside a W x H array: what
\* cv2.boundingRect can return for a contour of an array of that size
BoxesIn(W, H, min) ==
    UNION {{Box(x, y, w, h) : x \in 0..(W - w), y \in 0..(H - h)} :
              w \in min..W, h \in min..H}

\* what detectMultiScale can return for a W x H array: the cascades' windows
\* are square (24 x 24 for the face, 20 x 20 for the eye cascade), every
\* detection is a scaled window inside the array, never below min x min
SquaresIn(W, H, min) ==
    UNION {{Box(x, y, w, w) : x \in 0..(W - w), y \in 0..(H - w)} :
              w \in {v \in min..W : v <= H}}

SeqsUpTo(S, n) == UNION {[1..k -> S] : k \in 0..n}

\* the codes of the painted colours
Colour(name) ==
    CASE name = "blue" -> -1
      [] name = "green" -> -2
      [] name = "mesh" -> -3
      [] name = "contour" -> -4
      [] OTHER -> -9

\* the photo as decoded by imread
Decoded == [p \in Pixels |-> p]

\* no image yet
BlankImage == [p \in Pixels |-> Colour("none")]

\* cv2.cvtColor(img, COLOR_BGR2GRAY) of one pixel: the photo's content keeps
\* its (now grey) identity, a painted colour (b, g, r) becomes the grey level
\* 0.114 b + 0.587 g + 0.299 r, coded as its negative less 100
GrayOfPixel(v) ==
    CASE v = Colour("blue") -> -129
      [] v = Colour("green") -> -250
      [] OTHER -> v

ToGray(image) == [p \in Pixels |-> GrayOfPixel(image[p])]

\* cv2.rectangle(arr, (x1, y1), (x2, y2), colour, Thickness) where arr is the
\* view `view` of the full image and the corners are relative to the view:
\* the outline, widened by Thickness \div 2 on both sides, clipped to arr
RectPixels(view, x1, y1, x2, y2) ==
    LET r == Thickness \div 2
        gx1 == view.x + x1
        gy1 == view.y + y1
        gx2 == view.x + x2
        gy2 == view.y + y2
    IN {p \in PixelsOf(view) :
          /\ gx1 - r <= Col(p) /\ Col(p) <= gx2 + r
          /\ gy1 - r <= Row(p) /\ Row(p) <= gy2 + r
          /\ ~ (/\ gx1 + r < Col(p) /\ Col(p) < gx2 - r
                /\ gy1 + r < Row(p) /\ Row(p) < gy2 - r)}

Paint(image, ps, colour) == [p \in Pixels |-> IF p \in ps THEN colour ELSE image[p]]

Changed(a, b) == {p \in Pixels : a[p] # b[p]}

\* ------------------------------------------------------------ state
VARIABLES
    script,        \* which of the four scripts this run executes
    pc,            \* position in the script
    exitStatus,    \* -1 while running, then the process's exit status
    out,           \* console messages, in order
    inputFile,     \* "unchecked", "present" or "absent": Path.exists()
    decode,        \* "none", "ok" or "failed": what imread returned
    img,           \* the BGR image (scripts 2-4), original_img (script 1)
    gray,          \* the grayscale image handed to the cascades
    result_img,    \* script 1: the copy the rectangles are drawn on
    faces,         \* the face detector's result
    i,             \* index of the face / contour being processed
    eyes,          \* the eye detector's result for faces[i]
    j,             \* index of the eye being drawn
    eyeIn,         \* the array last passed to the eye cascade
    lastEye,       \* the last eye rectangle drawn for faces[i]: its corners in
                   \* the full image and the pixels it changed
    contours,      \* script 1: findContours' result
    face_detected, \* script 1: the flag
    rectsDrawn,    \* rectangles drawn so far
    detCalls,      \* detector invocations so far
    showCalls,     \* imshow / plt.show calls so far
    waitCalls,     \* blocking waits entered so far
    keyPresses,    \* key presses (script 1: figure closes) consumed
    windowOpen,    \* a display window is open
    shown,         \* the images handed to the display
    files          \* output files: set of [path, data]

vars == <<script, pc, exitStatus, out, inputFile, decode, img, gray, result_img,
          faces, i, eyes, j, eyeIn, lastEye, contours, face_detected,
          rectsDrawn, detCalls, showCalls, waitCalls, keyPresses, windowOpen,
          shown, files>>

NoEye == [x1 |-> 0, y1 |-> 0, x2 |-> 0, y2 |-> 0, changed |-> {}]

OutputPath(s) ==
    CASE s = 2 -> "./output/detected_faces.jpg"
      [] s = 3 -> "./output/detected_features.jpg"
      [] s = 4 -> "./output/detected_contours.jpg"
      [] OTHER -> "none"

Init ==
    /\ script \in Scripts
    /\ pc = "start"
    /\ exitStatus = -1
    /\ out = <<>>
    /\ inputFile = "unchecked"
    /\ decode = "none"
    /\ img = BlankImage
    /\ gray = BlankImage
    /\ result_img = BlankImage
    /\ faces = <<>>
    /\ i = 0
    /\ eyes = <<>>
    /\ j = 0
    /\ eyeIn = <<>>
    /\ lastEye = NoEye
    /\ contours = <<>>
    /\ face_detected = FALSE
    /\ rectsDrawn = 0
    /\ detCalls = 0
    /\ showCalls = 0
    /\ waitCalls = 0
    /\ keyPresses = 0
    /\ windowOpen = FALSE
    /\ shown = <<>>
    /\ files = {}


\* ------------------------------------------------------------ helpers
Say(text, n) == out \o <<<<text, n>>>>

Said(text) == \E k \in 1..Len(out) : out[k][1] = text

\* (mutant) the loop stops one element early
LoopDoneEarly(k, xs) == k >= Len(xs)

\* `for ... in xs` has no element left at (1-based) position k
LoopDone(k, xs) == k > Len(xs)

\* (mutant) the message is printed but sys.exit(1) is missing
MainGuardNoExit(exists) ==
    IF exists
    THEN [pc |-> "load", status |-> -1, msg |-> <<>>]
    ELSE [pc |-> "load", status |-> -1, msg |-> <<<<"Image file not found", 0>>>>]

\* the __main__ guard of scripts 2-4: Path(url).exists(), else print and
\* sys.exit(1); otherwise the detection function is called
MainGuard(exists) ==
    IF exists
    THEN [pc |-> "load", status |-> -1, msg |-> <<>>]
    ELSE [pc |-> "done", status |-> 1, msg |-> <<<<"Image file not found", 0>>>>]

\* (mutant) the error is printed but the function does not return
ImreadGuardNoReturn(ok) ==
    IF ok
    THEN [pc |-> "convert", status |-> -1, msg |-> <<>>]
    ELSE [pc |-> "convert", status |-> -1, msg |-> <<<<"Error: Could not load image.", 0>>>>]

\* (mutant) a failed decode ends the process like a missing file, status 1
ImreadGuardExit1(ok) ==
    IF ok
    THEN [pc |-> "convert", status |-> -1, msg |-> <<>>]
    ELSE [pc |-> "done", status |-> 1, msg |-> <<<<"Error: Could not load image.", 0>>>>]

\* `if img is None: print(...); return`; the return ends the script, status 0
ImreadGuard(ok) ==
    IF ok
    THEN [pc |-> "convert", status |-> -1, msg |-> <<>>]
    ELSE [pc |-> "done", status |-> 0, msg |-> <<<<"Error: Could not load image.", 0>>>>]

\* img_rgb = cv2.cvtColor(img, COLOR_BGR2RGB): the channels swapped
\* (the photo's content at k is coded k + ImgSize * ImgSize once swapped)
ToRGB(image) ==
    [p \in Pixels |-> IF image[p] >= 0 THEN image[p] + ImgSize * ImgSize ELSE image[p]]

\* the array each script hands to its (first) detector
DetectorInput(s, image) == IF s = 4 THEN ToRGB(image) ELSE ToGray(image)

FaceBoxes == SquaresIn(ImgSize, ImgSize, MinFaceSize)

FaceSeqs == SeqsUpTo(FaceBoxes, MaxFaces)

\* the corners cv2.rectangle gets for a box: (x, y), (x + w, y + h)
BoxRect(view, b) == RectPixels(view, b.x, b.y, b.x + b.w, b.y + b.h)

\* ------------------------------------------------- scripts 2, 3, 4: start-up
CheckExists ==
    /\ pc = "start"
    /\ script \in PhotoScripts
    /\ \E exists \in BOOLEAN :
         LET g == MainGuard(exists) IN
         /\ inputFile' = IF exists THEN "present" ELSE "absent"
         /\ pc' = g.pc
         /\ exitStatus' = g.status
         /\ out' = out \o g.msg
    /\ UNCHANGED <<script, decode, img, gray, result_img, faces, i, eyes, j, eyeIn,
                   lastEye, contours, face_detected, rectsDrawn, detCalls,
                   showCalls, waitCalls, keyPresses, windowOpen, shown, files>>

\* the cascades / FaceMesh are constructed, then img = cv2.imread(...)
Imread ==
    /\ pc = "load"
    /\ \E ok \in BOOLEAN :
         LET g == ImreadGuard(ok) IN
         /\ decode' = IF ok THEN "ok" ELSE "failed"
         /\ img' = IF ok THEN Decoded ELSE img
         /\ pc' = g.pc
         /\ exitStatus' = g.status
         /\ out' = out \o g.msg
    /\ UNCHANGED <<script, inputFile, gray, result_img, faces, i, eyes, j, eyeIn,
                   lastEye, contours, face_detected, rectsDrawn, detCalls,
                   showCalls, waitCalls, keyPresses, windowOpen, shown, files>>

Convert ==
    /\ pc = "convert"
    /\ gray' = DetectorInput(script, img)
    /\ pc' = "detect"
    /\ UNCHANGED <<script, exitStatus, out, inputFile, decode, img, result_img, faces,
                   i, eyes, j, eyeIn, lastEye, contours, face_detected, rectsDrawn,
                   detCalls, showCalls, waitCalls, keyPresses, windowOpen, shown, files>>

\* faces = face_cascade.detectMultiScale(gray, ...); print(f"Found ...")
DetectFaces ==
    /\ pc = "detect"
    /\ script \in {2, 3}
    /\ \E fs \in FaceSeqs :
         /\ faces' = fs
         /\ out' = Say("Found faces", Len(fs))
    /\ detCalls' = detCalls + 1
    /\ i' = 1
    /\ pc' = "loop"
    /\ UNCHANGED <<script, exitStatus, inputFile, decode, img, gray, result_img, eyes,
                   j, eyeIn, lastEye, contours, face_detected, rectsDrawn,
                   showCalls, waitCalls, keyPresses, windowOpen, shown, files>>

\* ------------------------------------------------------------ script 2
DrawFaceRect ==
    /\ pc = "loop"
    /\ script = 2
    /\ ~ LoopDone(i, faces)
    /\ img' = Paint(img, BoxRect(WholeImage, faces[i]), Colour("blue"))
    /\ rectsDrawn' = rectsDrawn + 1
    /\ i' = i + 1
    /\ UNCHANGED <<script, pc, exitStatus, out, inputFile, decode, gray, result_img,
                   faces, eyes, j, eyeIn, lastEye, contours, face_detected,
                   detCalls, showCalls, waitCalls, keyPresses, windowOpen, shown, files>>

FacesDone ==
    /\ pc = "loop"
    /\ script \in PhotoScripts
    /\ LoopDone(i, faces)
    /\ pc' = "show"
    /\ UNCHANGED <<script, exitStatus, out, inputFile, decode, img, gray, result_img,
                   faces, i, eyes, j, eyeIn, lastEye, contours, face_detected,
                   rectsDrawn, detCalls, showCalls, waitCalls, keyPresses, windowOpen,
                   shown, files>>

\* ------------------------------------------------------------ script 3
\* (mutant) the region is cut from the grayscale of the image being annotated
RoiGrayOfAnnotated(f) ==
    [q \in 0..(f.w * f.h - 1) |->
        ToGray(img)[(f.x + (q % f.w)) + ImgSize * (f.y + (q \div f.w))]]

\* roi_gray = gray[y:y+h, x:x+w]: the face's region of the grayscale image,
\* indexed from (0, 0)
RoiGray(f) ==
    [q \in 0..(f.w * f.h - 1) |-> gray[(f.x + (q % f.w)) + ImgSize * (f.y + (q \div f.w))]]

\* (mutant) the eyes are drawn on img itself, their corners not remapped
RoiColorWhole(f) == WholeImage

\* roi_color = img[y:y+h, x:x+w]: a view that shares img's pixels
RoiColor(f) == f

\* what eye_cascade.detectMultiScale can return for a w x h array
EyeSeqs(w, h) == SeqsUpTo(SquaresIn(w, h, MinEyeSize), MaxEyes)

\* the face rectangle is drawn, the two regions are sliced and the eye cascade
\* is run on the grayscale one
FaceStep ==
    /\ pc = "loop"
    /\ script = 3
    /\ ~ LoopDone(i, faces)
    /\ img' = Paint(img, BoxRect(WholeImage, faces[i]), Colour("blue"))
    /\ rectsDrawn' = rectsDrawn + 1
    /\ eyeIn' = RoiGray(faces[i])
    /\ eyes' \in EyeSeqs(faces[i].w, faces[i].h)
    /\ detCalls' = detCalls + 1
    /\ j' = 1
    /\ lastEye' = NoEye
    /\ pc' = "eyes"
    /\ UNCHANGED <<script, exitStatus, out, inputFile, decode, gray, result_img, faces,
                   i, contours, face_detected, showCalls, waitCalls, keyPresses,
                   windowOpen, shown, files>>

\* cv2.rectangle(roi_color, (ex, ey), (ex + ew, ey + eh), green, 2)
EyeStep ==
    /\ pc = "eyes"
    /\ ~ LoopDone(j, eyes)
    /\ LET view == RoiColor(faces[i])
           after == Paint(img, BoxRect(view, eyes[j]), Colour("green"))
       IN /\ img' = after
          /\ lastEye' = [x1 |-> view.x + eyes[j].x,
                         y1 |-> view.y + eyes[j].y,
                         x2 |-> view.x + eyes[j].x + eyes[j].w,
                         y2 |-> view.y + eyes[j].y + eyes[j].h,
                         changed |-> Changed(img, after)]
    /\ rectsDrawn' = rectsDrawn + 1
    /\ j' = j + 1
    /\ UNCHANGED <<script, pc, exitStatus, out, inputFile, decode, gray, result_img,
                   faces, i, eyes, eyeIn, contours, face_detected, detCalls, showCalls,
                   waitCalls, keyPresses, windowOpen, shown, files>>

\* the inner loop is over; eyes, roi_gray and roi_color are not read again
EyesDone ==
    /\ pc = "eyes"
    /\ LoopDone(j, eyes)
    /\ i' = i + 1
    /\ eyes' = <<>>
    /\ j' = 0
    /\ eyeIn' = <<>>
    /\ lastEye' = NoEye
    /\ pc' = "loop"
    /\ UNCHANGED <<script, exitStatus, out, inputFile, decode, img, gray, result_img,
                   faces, contours, face_detected, rectsDrawn, detCalls, showCalls,
                   waitCalls, keyPresses, windowOpen, shown, files>>

\* ------------------------------------------------------------ script 4
\* results = face_mesh.process(img_rgb); multi_face_landmarks is None when no
\* face is found, which takes the else branch
Process ==
    /\ pc = "detect"
    /\ script = 4
    /\ \E fs \in FaceSeqs :
         /\ faces' = fs
         /\ out' = IF Len(fs) > 0 THEN Say("Found faces", Len(fs))
                                  ELSE Say("No faces found.", 0)
         /\ pc' = IF Len(fs) > 0 THEN "loop" ELSE "show"
    /\ detCalls' = detCalls + 1
    /\ i' = 1
    /\ UNCHANGED <<script, exitStatus, inputFile, decode, img, gray, result_img, eyes,
                   j, eyeIn, lastEye, contours, face_detected, rectsDrawn,
                   showCalls, waitCalls, keyPresses, windowOpen, shown, files>>

\* the pixels mp_drawing.draw_landmarks paints for one face: the tesselation
\* covers the face's region, the contours its outline
LandmarkPixels(f, connections) ==
    IF connections = "FACEMESH_TESSELATION"
    THEN PixelsOf(f)
    ELSE {p \in PixelsOf(f) : \/ Col(p) = f.x \/ Col(p) = f.x + f.w - 1
                              \/ Row(p) = f.y \/ Row(p) = f.y + f.h - 1}

DrawMesh ==
    /\ pc = "loop"
    /\ script = 4
    /\ ~ LoopDone(i, faces)
    /\ img' = Paint(Paint(img, LandmarkPixels(faces[i], "FACEMESH_TESSELATION"),
                          Colour("mesh")),
                    LandmarkPixels(faces[i], "FACEMESH_CONTOURS"), Colour("contour"))
    /\ i' = i + 1
    /\ UNCHANGED <<script, pc, exitStatus, out, inputFile, decode, gray, result_img,
                   faces, eyes, j, eyeIn, lastEye, contours, face_detected,
                   rectsDrawn, detCalls, showCalls, waitCalls, keyPresses, windowOpen,
                   shown, files>>

\* ------------------------------------------- scripts 2, 3, 4: show and save
Imshow ==
    /\ pc = "show"
    /\ script \in PhotoScripts
    /\ shown' = Append(shown, img)
    /\ showCalls' = showCalls + 1
    /\ windowOpen' = TRUE
    /\ pc' = "write"
    /\ UNCHANGED <<script, exitStatus, out, inputFile, decode, img, gray, result_img,
                   faces, i, eyes, j, eyeIn, lastEye, contours, face_detected,
                   rectsDrawn, detCalls, waitCalls, keyPresses, files>>

\* cv2.imwrite(path, image): writes the encoded image and returns True, or
\* writes nothing and returns False (the ./output directory is missing or not
\* writable); it does not raise
ImwriteResult(ok, fs, path, image) ==
    IF ok THEN {f \in fs : f.path # path} \cup {[path |-> path, data |-> <<"jpeg", image>>]}
          ELSE fs

\* imwrite's return value is discarded, the message is printed, and
\* cv2.waitKey(0) is entered
Imwrite ==
    /\ pc = "write"
    /\ \E ok \in BOOLEAN : files' = ImwriteResult(ok, files, OutputPath(script), img)
    /\ out' = Say("Result saved as", script)
    /\ waitCalls' = waitCalls + 1
    /\ pc' = "wait"
    /\ UNCHANGED <<script, exitStatus, inputFile, decode, img, gray, result_img, faces,
                   i, eyes, j, eyeIn, lastEye, contours, face_detected, rectsDrawn,
                   detCalls, showCalls, keyPresses, windowOpen, shown>>

\* the user presses a key: cv2.waitKey(0) returns
KeyPress ==
    /\ pc = "wait"
    /\ script \in PhotoScripts
    /\ keyPresses' = keyPresses + 1
    /\ pc' = "destroy"
    /\ UNCHANGED <<script, exitStatus, out, inputFile, decode, img, gray, result_img,
                   faces, i, eyes, j, eyeIn, lastEye, contours, face_detected,
                   rectsDrawn, detCalls, showCalls, waitCalls, windowOpen, shown, files>>

\* cv2.destroyAllWindows(); the function returns and the script ends
DestroyAllWindows ==
    /\ pc = "destroy"
    /\ windowOpen' = FALSE
    /\ exitStatus' = 0
    /\ pc' = "done"
    /\ UNCHANGED <<script, out, inputFile, decode, img, gray, result_img, faces, i,
                   eyes, j, eyeIn, lastEye, contours, face_detected, rectsDrawn,
                   detCalls, showCalls, waitCalls, keyPresses, shown, files>>

\* ------------------------------------------------------------ script 1
\* generate_sample_face(): a fresh image
Generated == [p \in Pixels |-> p]

\* edges = cv2.Canny(cv2.GaussianBlur(gray, ...), 50, 150): a new binary map
EdgeMap(g) == [p \in Pixels |-> -1000 - g[p]]

\* twice the area cv2.contourArea can report, around the threshold
AreaSamples == {2 * AreaThreshold - 1, 2 * AreaThreshold, 2 * AreaThreshold + 1}

\* a contour, as far as the script reads it: its area (in half pixels) and
\* its bounding rectangle
Contours == [area2 : AreaSamples, rect : BoxesIn(ImgSize, ImgSize, MinFaceSize)]

\* (mutant) `if area >= 1000`
IsFaceInclusive(area2) == area2 >= 2 * AreaThreshold

\* `if area > 1000`
IsFace(area2) == area2 > 2 * AreaThreshold

GenerateSampleFace ==
    /\ pc = "start"
    /\ script = 1
    /\ img' = Generated
    /\ pc' = "detect"
    /\ UNCHANGED <<script, exitStatus, out, inputFile, decode, gray, result_img, faces,
                   i, eyes, j, eyeIn, lastEye, contours, face_detected, rectsDrawn,
                   detCalls, showCalls, waitCalls, keyPresses, windowOpen, shown, files>>

\* detect_face_edges, up to the loop: grayscale, blur, Canny, findContours,
\* result_img = img.copy(), face_detected = False
FindContours ==
    /\ pc = "detect"
    /\ script = 1
    /\ gray' = EdgeMap(ToGray(img))
    /\ contours' \in SeqsUpTo(Contours, MaxContours)
    /\ detCalls' = detCalls + 1
    /\ result_img' = img
    /\ face_detected' = FALSE
    /\ i' = 1
    /\ pc' = "loop"
    /\ UNCHANGED <<script, exitStatus, out, inputFile, decode, img, faces, eyes, j,
                   eyeIn, lastEye, rectsDrawn, showCalls, waitCalls, keyPresses,
                   windowOpen, shown, files>>

\* one iteration of `for contour in contours`
ContourStep ==
    /\ pc = "loop"
    /\ script = 1
    /\ ~ LoopDone(i, contours)
    /\ IF IsFace(contours[i].area2)
       THEN /\ result_img' = Paint(result_img, BoxRect(WholeImage, contours[i].rect),
                                   Colour("green"))
            /\ rectsDrawn' = rectsDrawn + 1
            /\ face_detected' = TRUE
       ELSE UNCHANGED <<result_img, rectsDrawn, face_detected>>
    /\ i' = i + 1
    /\ UNCHANGED <<script, pc, exitStatus, out, inputFile, decode, img, gray, faces,
                   eyes, j, eyeIn, lastEye, contours, detCalls, showCalls,
                   waitCalls, keyPresses, windowOpen, shown, files>>

\* the function returns; the three panels are plotted and plt.show() blocks
Plot ==
    /\ pc = "loop"
    /\ script = 1
    /\ LoopDone(i, contours)
    /\ shown' = <<img, gray, result_img>>
    /\ showCalls' = showCalls + 1
    /\ waitCalls' = waitCalls + 1
    /\ windowOpen' = TRUE
    /\ pc' = "wait"
    /\ UNCHANGED <<script, exitStatus, out, inputFile, decode, img, gray, result_img,
                   faces, i, eyes, j, eyeIn, lastEye, contours, face_detected,
                   rectsDrawn, detCalls, keyPresses, files>>

\* the user closes the figure: plt.show() returns, the verdict is printed and
\* the script ends
CloseFigure ==
    /\ pc = "wait"
    /\ script = 1
    /\ windowOpen' = FALSE
    /\ out' = IF face_detected THEN Say("Success: Face shape detected via edge analysis.", 0)
                               ELSE Say("No face-like edges found.", 0)
    /\ exitStatus' = 0
    /\ pc' = "done"
    /\ UNCHANGED <<script, inputFile, decode, img, gray, result_img, faces, i, eyes, j,
                   eyeIn, lastEye, contours, face_detected, rectsDrawn, detCalls,
                   showCalls, waitCalls, keyPresses, shown, files>>

\* ------------------------------------------------------------ specification
Next ==
    \/ CheckExists
    \/ Imread
    \/ Convert
    \/ DetectFaces
    \/ DrawFaceRect
    \/ FacesDone
    \/ FaceStep
    \/ EyeStep
    \/ EyesDone
    \/ Process
    \/ DrawMesh
    \/ Imshow
    \/ Imwrite
    \/ KeyPress
    \/ DestroyAllWindows
    \/ GenerateSampleFace
    \/ FindContours
    \/ ContourStep
    \/ Plot
    \/ CloseFigure

Spec == Init /\ [][Next]_vars

\* ------------------------------------------------------------ properties
Finished == pc = "done"

\* the output file a script writes, holding the given image
OutputFile(s, image) == [path |-> OutputPath(s), data |-> <<"jpeg", image>>]

\* the region f of the grayscale of the photo as decoded, indexed from (0, 0)
CleanSlice(f) ==
    [q \in 0..(f.w * f.h - 1) |->
        ToGray(Decoded)[(f.x + (q % f.w)) + ImgSize * (f.y + (q \div f.w))]]

\* contours already visited by the loop of detect_face_edges whose area is
\* strictly above 1000
BigVisited == {k \in 1..(i - 1) : k <= Len(contours) /\ contours[k].area2 > 2 * AreaThreshold}

\* C1: in scripts 2, 3 and 4, once the input path is found missing the
\* process has printed the not-found message and exited with status 1, and the
\* detection function was never entered: nothing was read, no detector ran,
\* no window was opened and no file was written.
C1_MissingInputExits ==
    (script \in PhotoScripts /\ inputFile = "absent") =>
        /\ Finished
        /\ exitStatus = 1
        /\ out = <<<<"Image file not found", 0>>>>
        /\ decode = "none"
        /\ img = BlankImage
        /\ detCalls = 0
        /\ showCalls = 0
        /\ ~ windowOpen
        /\ files = {}

C1_Witness ==
    /\ script \in PhotoScripts
    /\ inputFile = "absent"
    /\ exitStatus = 1

\* C2: in script 3, every eye rectangle drawn lies, in full-image
\* coordinates, within its parent face rectangle, and drawing it changes no
\* pixel outside that rectangle.
C2_EyeInsideFace ==
    (script = 3 /\ pc = "eyes" /\ j > 1) =>
        LET f == faces[i] IN
        /\ f.x <= lastEye.x1
        /\ f.y <= lastEye.y1
        /\ lastEye.x2 <= f.x + f.w
        /\ lastEye.y2 <= f.y + f.h
        /\ \A p \in lastEye.changed :
             /\ f.x <= Col(p) /\ Col(p) <= f.x + f.w
             /\ f.y <= Row(p) /\ Row(p) <= f.y + f.h

\* an eye rectangle was drawn in a face that does not start at the image's
\* origin, so that its corners had to be remapped, and it changed pixels
C2_Witness ==
    /\ script = 3
    /\ pc = "eyes"
    /\ j > 1
    /\ faces[i].x > 0
    /\ faces[i].y > 0
    /\ lastEye.x1 = faces[i].x + eyes[j - 1].x
    /\ lastEye.changed # {}

\* C3: whenever a photo script has printed "Result saved as ...", the output
\* file exists at that script's fixed path.
C3_SavedMeansWritten ==
    Said("Result saved as") => \E f \in files : f.path = OutputPath(script)

\* C4: in scripts 2, 3 and 4, when imread returns no image the failure is
\* printed and the function returns at once: no detector is run, nothing is
\* drawn, no window is opened, no file is written and "Result saved" is not
\* printed.
C4_DecodeFailureReturns ==
    decode = "failed" =>
        /\ Finished
        /\ Said("Error: Could not load image.")
        /\ ~ Said("Result saved as")
        /\ detCalls = 0
        /\ rectsDrawn = 0
        /\ img = BlankImage
        /\ showCalls = 0
        /\ ~ windowOpen
        /\ files = {}

C4_Witness ==
    /\ script \in PhotoScripts
    /\ inputFile = "present"
    /\ decode = "failed"
    /\ Finished

C6_ZeroFacesIsNormal ==
    (script \in PhotoScripts /\ Finished /\ decode = "ok" /\ Len(faces) = 0) =>
        /\ exitStatus = 0
        /\ shown = <<Decoded>>
        /\ files = {OutputFile(script, Decoded)}

\* C7 (as stated): every run that gets to detection ends having made exactly
\* one detector call and exactly one blocking display call.
C7_OneDetectorCall ==
    (Finished /\ inputFile # "absent" /\ decode # "failed") =>
        /\ detCalls = 1
        /\ waitCalls = 1

\* C7 (amended): a run stopped by the missing-file or the decode check makes
\* no detector and no display call; every other run makes exactly one display
\* call and one blocking wait, and exactly one detector call in scripts 1, 2
\* and 4, but 1 + n detector calls in script 3, n being the number of faces
\* the face cascade returned (one eye-cascade call per face).
C7_Amended ==
    Finished =>
        IF inputFile = "absent" \/ decode = "failed"
        THEN detCalls = 0 /\ showCalls = 0 /\ waitCalls = 0
        ELSE /\ showCalls = 1
             /\ waitCalls = 1
             /\ detCalls = IF script = 3 THEN 1 + Len(faces) ELSE 1

C7_Witness ==
    /\ script = 3
    /\ Finished
    /\ Len(faces) = MaxFaces
    /\ detCalls = 1 + MaxFaces
    /\ waitCalls = 1

\* C9: throughout the loop of detect_face_edges and after it, face_detected
\* is true exactly when a visited contour has area strictly above 1000 (so it
\* is never reset), and one rectangle has been drawn per such contour and
\* none for the others.
C9_FlagIffBigContour ==
    (script = 1 /\ pc \in {"loop", "wait", "done"}) =>
        /\ face_detected = (BigVisited # {})
        /\ rectsDrawn = Cardinality(BigVisited)
        /\ Changed(img, result_img) # {} => BigVisited # {}
        /\ Finished => Said(IF BigVisited # {}
                            THEN "Success: Face shape detected via edge analysis."
                            ELSE "No face-like edges found.")

\* the flag set by a first, large contour has survived a second contour of
\* area exactly 1000
C9_Witness ==
    /\ script = 1
    /\ Finished
    /\ Len(contours) = 2
    /\ contours[1].area2 = 2 * AreaThreshold + 1
    /\ contours[2].area2 = 2 * AreaThreshold
    /\ face_detected
    /\ rectsDrawn = 1

\* C10: drawing never changes an image a detector reads: in script 1 the
\* caller's image is still the generated one during and after the loop; in
\* script 3 the grayscale image stays the grayscale of the decoded photo and
\* what the eye cascade receives for a face is that face's region of it,
\* whatever was drawn before.
C10_DetectorInputsUntouched ==
    /\ (script = 1 /\ pc \in {"loop", "wait", "done"}) => img = Generated
    /\ (script = 3 /\ pc \in {"detect", "loop", "eyes", "show", "write", "wait",
                             "destroy"}) => gray = ToGray(Decoded)
    /\ (script = 3 /\ pc = "eyes") => eyeIn = CleanSlice(faces[i])

\* the eye cascade is run on a second face that overlaps the first, after
\* rectangles were painted inside the second face's region
C10_Witness ==
    /\ script = 3
    /\ pc = "eyes"
    /\ i = 2
    /\ faces[1] # faces[2]
    /\ PixelsOf(faces[1]) \cap PixelsOf(faces[2]) # {}
    /\ \E p \in PixelsOf(faces[2]) : img[p] = Colour("green")
    /\ \E p \in PixelsOf(faces[2]) : img[p] = Colour("blue")

====
